---- MODULE Spec2Model ----
(***************************************************************************)
(* pypgsync: incremental replication of one table from a source database   *)
(* into a destination database, driven by the `updated` watermark column.  *)
(*                                                                         *)
(* The module models pypgsync/utils.py (intervals), pypgsync/session.py     *)
(* (Session) and pypgsync/pypgsync.py (start_single) as a state machine:   *)
(* the two tables, the fields of the Session, the position of the          *)
(* merge_chunks generator and the ProgressRecords handed to the caller.    *)
(*                                                                         *)
(* A table is a set of rows [pk, updated]; `updated` stands for every      *)
(* non-primary-key column of the row.                                      *)
(*                                                                         *)
(* History.  fetched and dst0 record the windows a run has fetched and the *)
(* destination it began with; no step of the program reads them.           *)
(*                                                                         *)
(* Environment.  FetchFails and UpsertFails are the database rejecting a   *)
(* statement of the run; SourceWrite is another client of the source       *)
(* database writing a row while the run is in progress.                    *)
(*                                                                         *)
(* Arithmetic.  slice_length (session.py 237-238) is a Python float.  The  *)
(* model keeps it as the exact fraction num/den.  The estimates the model  *)
(* draws (Estimates) and the steps it draws (Steps) are those for which    *)
(* the binary floating point evaluation of the code and the exact one      *)
(* give the same pairs over the watermark range of the model (powers of    *)
(* two and dyadic fractions exactly; 10,000,000 and 20,000,000 as observed *)
(* by running intervals on the range).                                     *)
(***************************************************************************)
EXTENDS Integers, Sequences, FiniteSets

(***************************************************************************)
(* Bounds of the model.                                                    *)
(***************************************************************************)
\* primary keys are 1..NPk
NPk == 3
\* watermark values, and the run start times, are 0..MaxW
MaxW == 3
\* chunk sizes are 1..MaxChunk
MaxChunk == 2
\* start and end of the intervals calls of SpecIntervals are 0..MaxIv
MaxIv == 10
\* writes of other clients to the source during a run of SpecLive
MaxWrites == 1

(***************************************************************************)
(* Program constants.                                                      *)
(***************************************************************************)
\* session.py 238: the hard-coded ceiling of rows per slice
SliceCeiling == 10000000

\* Python's None / SQL NULL, as returned by .scalar() on MAX or MIN of an
\* empty table (session.py 59, 63, 214); watermarks are never negative
None == -1

PKs == 1..NPk
Watermarks == 0..MaxW
Rows == [pk : PKs, updated : Watermarks]

\* the row counts EXPLAIN may report (session.py 231-234)
Estimates == {0, 1, SliceCeiling, 2 * SliceCeiling, 8388608}

\* the steps of SpecIntervals, as <<num, den>>: 1, 2, 5, 3/4, 3/2, 15/4, 0, -1
Steps == {<<1, 1>>, <<2, 1>>, <<5, 1>>, <<3, 4>>, <<3, 2>>, <<15, 4>>, <<0, 1>>, <<-1, 1>>}

(***************************************************************************)
(* Tables.                                                                 *)
(***************************************************************************)
\* the primary key constraint: at most one row per primary key
UniquePk(T) == \A r, s \in T : r.pk = s.pk => r = s

TableOf(f) == {[pk |-> k, updated |-> f[k]] : k \in DOMAIN f}

\* the source tables of Init, up to a renaming of the primary keys: n rows,
\* keys 1..n, watermarks in any combination (non-decreasing in the key)
Sources == UNION {{TableOf(f) : f \in {g \in [1..n -> Watermarks] :
                      \A i, j \in 1..n : i <= j => g[i] <= g[j]}} : n \in 0..NPk}

\* every table over the keys and watermarks of the model
AnyTables == {T \in SUBSET Rows : UniquePk(T)}

Max(S) == CHOOSE x \in S : \A y \in S : y <= x
Min(S) == CHOOSE x \in S : \A y \in S : x <= y

\* SELECT MAX(updated) ... .scalar()
max_updated_of(T) == IF T = {} THEN None ELSE Max({r.updated : r \in T})
\* SELECT MIN(updated) ... .scalar()
min_updated_of(T) == IF T = {} THEN None ELSE Min({r.updated : r \in T})

\* Python truthiness of a scalar: None and 0 are false
Truthy(x) == x # None /\ x # 0

(***************************************************************************)
(* utils.intervals                                                         *)
(***************************************************************************)
\* Python int() of the fraction x/den (den > 0): truncation towards zero
IntOf(x, den) == IF x >= 0 THEN x \div den ELSE -((-x) \div den)

MinOf(a, b) == IF a <= b THEN a ELSE b

\* the while loop of intervals, from its k-th pass on: r = start + k*num/den
\* after `r += n`; all quantities are scaled by den
RECURSIVE intervals_loop(_, _, _, _, _)
intervals_loop(start, end, num, den, k) ==
  LET r == start * den + k * num
  IN IF r > end * den + num
     THEN <<>>
     ELSE <<<<IntOf(r - num, den), IntOf(MinOf(r - den, end * den), den)>>>>
          \o intervals_loop(start, end, num, den, k + 1)

\* intervals without its argument check
intervals_guard_dropped(start, end) == FALSE

\* the guard of intervals (utils.py 31)
intervals_guard(start, end) == start > end

\* list(intervals(start, end, num/den)): what the generator does when it is
\* exhausted.  With start <= end and a step <= 0 the test `r > end + n` is
\* never true and the generator yields for ever ("diverges").
intervals(start, end, num, den) ==
  IF intervals_guard(start, end)
  THEN [outcome |-> "ValueError", pairs |-> <<>>]
  ELSE IF start <= end /\ num <= 0
  THEN [outcome |-> "diverges", pairs |-> <<>>]
  ELSE [outcome |-> "ok", pairs |-> intervals_loop(start, end, num, den, 1)]

(***************************************************************************)
(* Session: watermark resolution and slice planning                        *)
(***************************************************************************)
\* Session._get_starting_point: MAX(updated) of the destination, and
\* MIN(updated) of the source when `not min`
get_starting_point(src, dst) ==
  LET min == max_updated_of(dst)
  IN IF ~Truthy(min) THEN min_updated_of(src) ELSE min

\* Session.calculate_optimal_slices, for the estimate m that EXPLAIN reports
\* when it is asked.  `estimate` is the local m (None when EXPLAIN was not
\* reached).  In Python 3 `starting_point >= src_max` raises TypeError when
\* either side is None (an empty source table).
calculate_optimal_slices(src, starting_point, maxupd, m) ==
  LET src_max == max_updated_of(src)
  IN IF starting_point = None \/ src_max = None
     THEN [outcome |-> "TypeError", slices |-> <<>>, size |-> 0, estimate |-> None]
     ELSE IF starting_point >= src_max
     THEN [outcome |-> "ok", slices |-> <<>>, size |-> 0, estimate |-> None]
     ELSE IF m = 0
     THEN [outcome |-> "ZeroDivisionError", slices |-> <<>>, size |-> 0, estimate |-> m]
     ELSE LET iv == intervals(starting_point, maxupd,
                              (maxupd - starting_point) * SliceCeiling, m)
          IN [outcome |-> iv.outcome, slices |-> iv.pairs,
              size |-> IF iv.outcome = "ok" THEN m ELSE 0, estimate |-> m]

(***************************************************************************)
(* Session: the windowed cursor                                            *)
(***************************************************************************)
\* select_stmt without the upper end of the slice
select_stmt_unbounded(src, slice) == {r \in src : r.updated >= slice[1]}

\* the rows select_stmt selects (session.py 127-133): updated within the slice
select_stmt(src, slice) ==
  {r \in src : r.updated >= slice[1] /\ r.updated <= slice[2]}

\* the `updated` values of T in descending order
RECURSIVE ordered_updated_desc(_)
ordered_updated_desc(T) ==
  IF T = {} THEN <<>>
  ELSE LET r == CHOOSE x \in T : \A y \in T : x.updated >= y.updated
       IN <<r.updated>> \o ordered_updated_desc(T \ {r})

\* the `updated` values of T in the order of ROW_NUMBER() OVER (ORDER BY updated)
RECURSIVE ordered_updated(_)
ordered_updated(T) ==
  IF T = {} THEN <<>>
  ELSE LET r == CHOOSE x \in T : \A y \in T : x.updated <= y.updated
       IN <<r.updated>> \o ordered_updated(T \ {r})

\* a filter that takes every windowsize-th row instead of the rows after them
rownum_filter_zero(rownum, windowsize) == rownum % windowsize = 0

\* the filter on rownum (session.py 290-292): rownum % windowsize = 1, and no
\* filter at all when windowsize is 1
rownum_filter(rownum, windowsize) ==
  IF windowsize > 1 THEN rownum % windowsize = 1 ELSE TRUE

RECURSIVE window_starts(_, _, _)
window_starts(vals, windowsize, rownum) ==
  IF rownum > Len(vals) THEN <<>>
  ELSE (IF rownum_filter(rownum, windowsize) THEN <<vals[rownum]>> ELSE <<>>)
       \o window_starts(vals, windowsize, rownum + 1)

\* the list `windows` of windowed_query (session.py 295)
windowed_query(src, slice, windowsize) ==
  window_starts(ordered_updated(select_stmt(src, slice)), windowsize, 1)

\* interval_to_expr with a closed upper end
interval_to_expr_closed(r, start, end) ==
  IF Truthy(end) THEN r.updated >= start /\ r.updated <= end
  ELSE r.updated >= start

\* interval_to_expr (session.py 264-271) applied to a row: `if end` is false
\* for None and for 0
interval_to_expr(r, start, end) ==
  IF Truthy(end) THEN r.updated >= start /\ r.updated < end
  ELSE r.updated >= start

\* the rows fetched for the first window of `wins` (session.py 300-308, 75-77)
fetch_window(src, slice, wins) ==
  LET start == Head(wins)
      end == IF Len(wins) > 1 THEN wins[2] ELSE None
  IN {r \in select_stmt(src, slice) : interval_to_expr(r, start, end)}

(***************************************************************************)
(* Session: the merge                                                      *)
(***************************************************************************)
\* INSERT ... ON CONFLICT DO NOTHING: a conflicting row keeps its old values
upsert_do_nothing(dst, rows) ==
  dst \cup {s \in rows : \A r \in dst : r.pk # s.pk}

\* an insert that deletes the conflicting row instead of updating it
upsert_delete_on_conflict(dst, rows) ==
  {r \in dst : \A s \in rows : s.pk # r.pk}
    \cup {s \in rows : \A r \in dst : r.pk # s.pk}

\* INSERT ... ON CONFLICT (pk) DO UPDATE SET every non-pk column
\* (session.py 135-151)
upsert(dst, rows) ==
  {r \in dst : \A s \in rows : s.pk # r.pk} \cup rows

\* the ProgressRecord of session.py 160
progress_record(processed, rowcnt, size) ==
  <<MinOf(processed, rowcnt), rowcnt, size>>

\* Session.connect, entering the with-block (session.py 103): two connections
connect_enter(open) == open + 2

\* Session.connect, leaving the with-block (session.py 107-109): the finally
\* clause builds the generator expression (c.close() for c in conn) and drops
\* it without iterating it, so close() is called on no connection
connect_exit(open) == open

\* a failed upsert that leaves part of the chunk in the destination
upsert_partial(dst, rows) ==
  IF rows = {} THEN dst ELSE upsert(dst, {CHOOSE r \in rows : TRUE})

\* dst.execute(insert_stmt, [...]) raising (session.py 149-151): the statement
\* runs in one implicit transaction that is rolled back, so no row of the
\* chunk is in the destination
upsert_failed(dst, rows) == dst

\* the exception that leaves _chunkify when conn.execute(window) raises
\* (session.py 74-81): the finally clause calls result.close(); `result` is
\* a local of this call of _chunkify, unbound until the first execute of the
\* slice has returned, and bound to the previous window's result afterwards
chunkify_error(first) == IF first THEN "UnboundLocalError" ELSE "DBAPIError"

\* an INSERT or UPDATE of one row by another client of the source database
write_row(src, r) == {s \in src : s.pk # r.pk} \cup {r}

(***************************************************************************)
(* State                                                                   *)
(***************************************************************************)
VARIABLES
  src_table,          \* the source table
  dst_table,          \* the destination table
  chunksize,          \* Session.chunksize
  max_updated,        \* Session.max_updated: the run start time (pypgsync.py 13)
  pc,                 \* where the run is: "start", "resolved", "planned", "slice",
                      \* "fetched", "yielded", "done", "abandoned", "failed", "hung"
  err,                \* the exception that ended the run, or "none"
  starting_point,     \* Session.starting_point
  slices,             \* Session.slices
  src_table_size,     \* Session.src_table_size
  estimate,           \* the local m of calculate_optimal_slices (None: not read)
  slice_no,           \* index in slices of the slice of the current with-block
  windows,            \* the local list `windows` of windowed_query
  rowcount,           \* the local rowcount of windowed_query
  chunk,              \* the rows fetched for the current window
  processed_rowcount, \* the local progress counter of merge_chunks
  records,            \* the ProgressRecords handed to the caller in this run
  open_conns,         \* connections opened by connect() and not closed
  prev_end,           \* how the previous run over these tables ended ("none": first run)
  iv_in,              \* SpecIntervals: the arguments <<start, end, num, den>>
  iv_out,             \* SpecIntervals: the result of list(intervals(...))
  fetched,            \* history: the windows fetched in this run, in order, as
                      \* [slice, start, rows, src] (src: the source at the fetch)
  dst0,               \* history: the destination when the run began
  writes              \* SpecLive: the number of writes to the source so far

vars == <<src_table, dst_table, chunksize, max_updated, pc, err, starting_point,
          slices, src_table_size, estimate, slice_no, windows, rowcount, chunk,
          processed_rowcount, records, open_conns, prev_end, iv_in, iv_out,
          fetched, dst0, writes>>

tables == <<src_table, dst_table>>
params == <<chunksize, max_updated, prev_end>>
plan == <<starting_point, slices, src_table_size, estimate>>
cursor == <<slice_no, windows, rowcount, chunk>>
ivvars == <<iv_in, iv_out>>
hist == <<fetched, dst0, writes>>

\* the state of a run before the Session is constructed
FreshRun ==
  /\ pc = "start"
  /\ err = "none"
  /\ starting_point = None
  /\ slices = <<>>
  /\ src_table_size = 0
  /\ estimate = None
  /\ slice_no = 0
  /\ windows = <<>>
  /\ rowcount = 0
  /\ chunk = {}
  /\ processed_rowcount = 0
  /\ records = <<>>
  /\ open_conns = 0
  /\ fetched = <<>>
  /\ dst0 = dst_table
  /\ writes = 0

\* intervals has not been called
NotCalled == [outcome |-> "none", pairs |-> <<>>]

IvIdle == iv_in = <<0, 0, 1, 1>> /\ iv_out = NotCalled

\* start_single called on a static source and an empty destination
Init ==
  /\ src_table \in Sources
  /\ dst_table = {}
  /\ chunksize \in 1..MaxChunk
  /\ max_updated \in Watermarks
  /\ prev_end = "none"
  /\ FreshRun
  /\ IvIdle

\* start_single called on a destination that already holds any rows
InitAnyDst ==
  /\ src_table \in Sources
  /\ dst_table \in AnyTables
  /\ chunksize \in 1..MaxChunk
  /\ max_updated \in Watermarks
  /\ prev_end = "none"
  /\ FreshRun
  /\ IvIdle

(***************************************************************************)
(* Session.__init__                                                        *)
(***************************************************************************)
\* session.py 45: self.starting_point = self._get_starting_point()
Resolve ==
  /\ pc = "start"
  /\ starting_point' = get_starting_point(src_table, dst_table)
  /\ open_conns' = connect_exit(connect_enter(open_conns))
  /\ pc' = "resolved"
  /\ UNCHANGED <<tables, params, err, slices, src_table_size, estimate, cursor,
                 processed_rowcount, records, ivvars, hist>>

\* session.py 46: self.slices, self.src_table_size = self.calculate_optimal_slices()
Plan ==
  /\ pc = "resolved"
  /\ \E m \in Estimates :
       LET p == calculate_optimal_slices(src_table, starting_point, max_updated, m)
       IN /\ slices' = p.slices
          /\ src_table_size' = p.size
          /\ estimate' = p.estimate
          /\ err' = IF p.outcome \in {"ok", "diverges"} THEN "none" ELSE p.outcome
          /\ pc' = CASE p.outcome = "ok" -> "planned"
                     [] p.outcome = "diverges" -> "hung"
                     [] OTHER -> "failed"
  /\ open_conns' = connect_exit(connect_enter(open_conns))
  /\ UNCHANGED <<tables, params, starting_point, cursor, processed_rowcount,
                 records, ivvars, hist>>

(***************************************************************************)
(* Session.merge_chunks                                                    *)
(***************************************************************************)
\* the for loop takes the next slice, enters the with-block and windowed_query
\* reads the window starts (session.py 121-147, 273-298)
EnterSlice ==
  /\ pc = "planned"
  /\ slice_no < Len(slices)
  /\ slice_no' = slice_no + 1
  /\ open_conns' = connect_enter(open_conns)
  /\ LET w == windowed_query(src_table, slices[slice_no + 1], chunksize)
     IN /\ windows' = w
        /\ rowcount' = Len(w) * chunksize
  /\ pc' = "slice"
  /\ UNCHANGED <<tables, params, err, plan, chunk, processed_rowcount, records, ivvars, hist>>

\* windowed_query yields the next window and _chunkify fetches its rows
\* (session.py 300-308, 73-77)
Fetch ==
  /\ pc = "slice"
  /\ windows # <<>>
  /\ chunk' = fetch_window(src_table, slices[slice_no], windows)
  /\ windows' = Tail(windows)
  /\ fetched' = Append(fetched, [slice |-> slice_no, start |-> Head(windows),
                                 rows |-> chunk', src |-> src_table])
  /\ pc' = "fetched"
  /\ UNCHANGED <<tables, params, err, plan, slice_no, rowcount, processed_rowcount,
                 records, open_conns, ivvars, dst0, writes>>

\* the record is handed to the caller before the chunk is merged
YieldBeforeUpsert ==
  /\ pc = "fetched"
  /\ processed_rowcount' = processed_rowcount + Cardinality(chunk)
  /\ records' = Append(records, progress_record(processed_rowcount + Cardinality(chunk),
                                                rowcount, src_table_size))
  /\ pc' = "yielded"
  /\ UNCHANGED <<tables, params, err, plan, cursor, open_conns, ivvars, hist>>

\* the upsert of the chunk, the counter and the yield (session.py 149-160)
UpsertYield ==
  /\ pc = "fetched"
  /\ dst_table' = upsert(dst_table, chunk)
  /\ processed_rowcount' = processed_rowcount + Cardinality(chunk)
  /\ records' = Append(records, progress_record(processed_rowcount + Cardinality(chunk),
                                                rowcount, src_table_size))
  /\ pc' = "yielded"
  /\ UNCHANGED <<src_table, params, err, plan, cursor, open_conns, ivvars, hist>>

\* the caller asks for the next record: the generator resumes after the yield
Resume ==
  /\ pc = "yielded"
  /\ pc' = "slice"
  /\ UNCHANGED <<tables, params, err, plan, cursor, processed_rowcount, records,
                 open_conns, ivvars, hist>>

\* the windows of the slice are exhausted: the with-block is left
ExitSlice ==
  /\ pc = "slice"
  /\ windows = <<>>
  /\ open_conns' = connect_exit(open_conns)
  /\ pc' = "planned"
  /\ UNCHANGED <<tables, params, err, plan, cursor, processed_rowcount, records, ivvars, hist>>

\* no slice is left: merge_chunks returns
Finish ==
  /\ pc = "planned"
  /\ slice_no = Len(slices)
  /\ pc' = "done"
  /\ UNCHANGED <<tables, params, err, plan, cursor, processed_rowcount, records,
                 open_conns, ivvars, hist>>

\* the caller abandons the generator between two windows: GeneratorExit is
\* raised at the yield and the with-block is left through its finally clause
Abandon ==
  /\ pc = "yielded"
  /\ open_conns' = connect_exit(open_conns)
  /\ pc' = "abandoned"
  /\ UNCHANGED <<tables, params, err, plan, cursor, processed_rowcount, records, ivvars, hist>>

\* a fresh Session over the same tables after the run has ended, not earlier
\* than the run before (pypgsync.py 13-24; cli.py 91-94 in continuous mode)
NewSession ==
  /\ pc \in {"done", "abandoned", "failed"}
  /\ prev_end = "none"
  /\ prev_end' = pc
  /\ max_updated' \in max_updated..MaxW
  /\ pc' = "start"
  /\ err' = "none"
  /\ starting_point' = None
  /\ slices' = <<>>
  /\ src_table_size' = 0
  /\ estimate' = None
  /\ slice_no' = 0
  /\ windows' = <<>>
  /\ rowcount' = 0
  /\ chunk' = {}
  /\ processed_rowcount' = 0
  /\ records' = <<>>
  /\ open_conns' = 0
  /\ fetched' = <<>>
  /\ dst0' = dst_table
  /\ UNCHANGED <<tables, chunksize, ivvars, writes>>

Next ==
  \/ Resolve
  \/ Plan
  \/ EnterSlice
  \/ Fetch
  \/ UpsertYield
  \/ Resume
  \/ ExitSlice
  \/ Finish
  \/ Abandon

\* one run of start_single on an empty destination
Spec == Init /\ [][Next]_vars

\* one run of start_single on any destination
SpecAnyDst == InitAnyDst /\ [][Next]_vars

NextResume == Next \/ NewSession

\* a run on an empty destination and a fresh Session after it has ended
SpecResume == Init /\ [][NextResume]_vars

(***************************************************************************)
(* Failing statements                                                      *)
(***************************************************************************)
\* no window of the current slice has been fetched: `result` is unbound
FirstOfSlice == \A i \in 1..Len(fetched) : fetched[i].slice # slice_no

\* the local `result` of _chunkify (session.py 75), as the number in `fetched`
\* of the window whose result set it is bound to; 0: unbound.  It is bound by
\* the last execute of this call of _chunkify that returned.
result == IF FirstOfSlice THEN 0 ELSE Len(fetched)

\* windowed_query yields the next window and conn.execute(window) raises
\* (session.py 75): the exception leaves _chunkify, the for loop and the
\* with-block of merge_chunks; the generator is finished
FetchFails ==
  /\ pc = "slice"
  /\ windows # <<>>
  /\ windows' = Tail(windows)
  /\ err' = chunkify_error(FirstOfSlice)
  /\ open_conns' = connect_exit(open_conns)
  /\ pc' = "failed"
  /\ UNCHANGED <<tables, params, plan, slice_no, rowcount, chunk, processed_rowcount,
                 records, ivvars, hist>>

\* dst.execute of the upsert raises (session.py 149-151): nothing is yielded
UpsertFails ==
  /\ pc = "fetched"
  /\ dst_table' = upsert_failed(dst_table, chunk)
  /\ err' = "DBAPIError"
  /\ open_conns' = connect_exit(open_conns)
  /\ pc' = "failed"
  /\ UNCHANGED <<src_table, params, plan, cursor, processed_rowcount, records,
                 ivvars, hist>>

\* a run in which a fetch or an upsert may fail
NextFaulty == Next \/ FetchFails \/ UpsertFails

NextInterrupted == NextFaulty \/ NewSession

\* a run on an empty destination that may be stopped by its caller or by a
\* failing statement, and a fresh Session after it has ended
SpecInterrupted == Init /\ [][NextInterrupted]_vars

(***************************************************************************)
(* A source that is written while the run is in progress                   *)
(***************************************************************************)
\* another client inserts a row into the source or updates one, with any
\* watermark, at any point of the run
SourceWrite ==
  /\ pc \notin {"done", "abandoned", "failed", "hung"}
  /\ writes < MaxWrites
  /\ \E r \in Rows : /\ r \notin src_table
                      /\ src_table' = write_row(src_table, r)
  /\ writes' = writes + 1
  /\ UNCHANGED <<dst_table, params, pc, err, plan, cursor, processed_rowcount,
                 records, open_conns, ivvars, fetched, dst0>>

NextLive == Next \/ SourceWrite

\* one run on an empty destination while the source is written
SpecLive == Init /\ [][NextLive]_vars

(***************************************************************************)
(* utils.intervals as a function of its arguments                          *)
(***************************************************************************)
InitIntervals ==
  /\ src_table = {}
  /\ dst_table = {}
  /\ chunksize = 1
  /\ max_updated = 0
  /\ prev_end = "none"
  /\ FreshRun
  /\ iv_in \in {<<s, e, st[1], st[2]>> : s \in 0..MaxIv, e \in 0..MaxIv, st \in Steps}
  /\ iv_out = NotCalled

\* list(intervals(start, end, n))
CallIntervals ==
  /\ iv_out = NotCalled
  /\ iv_out' = intervals(iv_in[1], iv_in[2], iv_in[3], iv_in[4])
  /\ UNCHANGED <<tables, params, pc, err, plan, cursor, processed_rowcount, records,
                 open_conns, iv_in, hist>>

NextIntervals == CallIntervals

SpecIntervals == InitIntervals /\ [][NextIntervals]_vars

(***************************************************************************)
(* The upsert statement as a function of the destination and the rows      *)
(***************************************************************************)
\* any destination and the rows of any window, the latter up to a renaming
\* of the primary keys; pc counts the executions of the statement: "apply0",
\* "apply1", "apply2"
InitUpsert ==
  /\ src_table = {}
  /\ dst_table \in AnyTables
  /\ chunk \in Sources
  /\ chunksize = 1
  /\ max_updated = 0
  /\ prev_end = "none"
  /\ pc = "apply0"
  /\ err = "none"
  /\ starting_point = None
  /\ slices = <<>>
  /\ src_table_size = 0
  /\ estimate = None
  /\ slice_no = 0
  /\ windows = <<>>
  /\ rowcount = 0
  /\ processed_rowcount = 0
  /\ records = <<>>
  /\ open_conns = 0
  /\ fetched = <<>>
  /\ dst0 = dst_table
  /\ writes = 0
  /\ IvIdle

\* dst.execute(insert_stmt, rows of the chunk) (session.py 149-151)
ApplyUpsert ==
  /\ pc \in {"apply0", "apply1"}
  /\ dst_table' = upsert(dst_table, chunk)
  /\ pc' = IF pc = "apply0" THEN "apply1" ELSE "apply2"
  /\ UNCHANGED <<src_table, params, err, plan, cursor, processed_rowcount, records,
                 open_conns, ivvars, hist>>

NextUpsert == ApplyUpsert

SpecUpsert == InitUpsert /\ [][NextUpsert]_vars

(***************************************************************************)
(* Properties                                                              *)
(***************************************************************************)
\* pairs are ascending, contiguous and non-overlapping, the first starts at
\* lo and the last ends at hi: every integer of lo..hi lies in exactly one pair
Covers(pairs, lo, hi) ==
  /\ pairs # <<>>
  /\ pairs[1][1] = lo
  /\ pairs[Len(pairs)][2] = hi
  /\ \A i \in 1..Len(pairs) : pairs[i][1] <= pairs[i][2]
  /\ \A i \in 1..(Len(pairs) - 1) : pairs[i + 1][1] = pairs[i][2] + 1

DistinctWatermarks(T) == \A r, s \in T : r.updated = s.updated => r = s

\* every row of the source is at or below the run start time
SourceWithinRun == \A r \in src_table : r.updated <= max_updated

Ceil(a, b) == (a + b - 1) \div b

\* the first components of the records are strictly increasing
FirstsIncrease == \A i \in 1..(Len(records) - 1) : records[i][1] < records[i + 1][1]

\* C1: static source with every watermark at or below the run start time and
\* an empty destination: when the run has completed, the destination holds
\* exactly the rows of the source.
C1_DestinationEqualsSource ==
  (pc = "done" /\ SourceWithinRun) => dst_table = src_table

C3_ResumeCompletes ==
  prev_end \in {"abandoned", "failed"} =>
    /\ (pc = "resolved" /\ dst_table # {}) => starting_point = max_updated_of(dst_table)
    /\ pc = "fetched" => \A r \in chunk : r.updated >= starting_point
    /\ (pc = "done" /\ SourceWithinRun) => (dst_table = src_table /\ UniquePk(dst_table))

\* C4: outside the with-blocks of connect() no connection of the session is
\* open: after the constructor's two blocks, between slices, and when the run
\* has ended normally, with an error or by the caller abandoning it.
C4_ConnectionsClosed ==
  pc \in {"resolved", "planned", "done", "abandoned", "failed"} => open_conns = 0

\* C5: the resolved watermark is MAX(updated) of the destination whenever the
\* destination holds a row, and MIN(updated) of the source when it is empty.
C5_WatermarkResolution ==
  pc = "resolved" =>
    starting_point = IF dst_table = {} THEN min_updated_of(src_table)
                     ELSE max_updated_of(dst_table)

\* C6: with the resolved watermark at or above the run start time the planner
\* returns no slice and a total of 0 without failing, no record is emitted
\* and nothing is written.  Stated on the runs in which EXPLAIN does not
\* report 0 rows (that case is C7's).
C6_NothingToPlan ==
  (pc \notin {"start", "resolved"} /\ starting_point # None
     /\ starting_point >= max_updated /\ estimate # 0) =>
    /\ pc \notin {"failed", "hung"}
    /\ slices = <<>>
    /\ src_table_size = 0
    /\ records = <<>>
    /\ dst_table = {}

\* C7: with an estimate of 0 over a non-empty range the planner returns the
\* one slice [watermark, runStartTime] and a total of 0, and does not fail.
C7_ZeroEstimate ==
  (estimate = 0 /\ starting_point <= max_updated) =>
    /\ pc # "failed"
    /\ slices = <<<<starting_point, max_updated>>>>
    /\ src_table_size = 0

\* C8: with watermark < runStartTime and a positive estimate the planned
\* slices are ascending, contiguous, start at the watermark and end at
\* runStartTime.
C8_SlicesCover ==
  (estimate # None /\ estimate > 0 /\ starting_point < max_updated) =>
    /\ pc \notin {"failed", "hung"}
    /\ Covers(slices, starting_point, max_updated)

\* C9: for start <= end and step > 0 the pairs of intervals are ascending,
\* contiguous, span at most step each, end at `end` and cover [start, end];
\* intervals(1,1,5) = [(1,1)] and intervals(1,10,5) = [(1,5),(6,10)].
C9_IntervalsCover ==
  (iv_out # NotCalled /\ iv_in[1] <= iv_in[2] /\ iv_in[3] > 0) =>
    /\ iv_out.outcome = "ok"
    /\ Covers(iv_out.pairs, iv_in[1], iv_in[2])
    /\ \A i \in 1..Len(iv_out.pairs) :
         (iv_out.pairs[i][2] - iv_out.pairs[i][1]) * iv_in[4] <= iv_in[3]
    /\ iv_in = <<1, 1, 5, 1>> => iv_out.pairs = <<<<1, 1>>>>
    /\ iv_in = <<1, 10, 5, 1>> => iv_out.pairs = <<<<1, 5>>, <<6, 10>>>>

\* C10: with start > end intervals raises ValueError, whatever the step, and
\* has yielded no pair.
C10_InvalidRange ==
  (iv_out # NotCalled /\ iv_in[1] > iv_in[2]) =>
    iv_out = [outcome |-> "ValueError", pairs |-> <<>>]

\* intervals(10, 1, 5) has raised
C10_Witness ==
  iv_in = <<10, 1, 5, 1>> /\ iv_out.outcome = "ValueError"

\* the windows fetched for slice number n, in the order of their fetches
SliceWindows(n) == SelectSeq(fetched, LAMBDA f : f.slice = n)

\* C11: when the windows of a slice are exhausted, every row of the slice was
\* selected by exactly one window and no window selected a row outside the
\* slice, the windows came in ascending watermark order, and there were at
\* most ceil(N/c) of them.
C11_WindowsPartitionSlice ==
  (pc = "slice" /\ windows = <<>>) =>
    LET W == SliceWindows(slice_no)
        S == select_stmt(src_table, slices[slice_no])
    IN /\ \A r \in S : Cardinality({i \in 1..Len(W) : r \in W[i].rows}) = 1
       /\ \A i \in 1..Len(W) : W[i].rows \subseteq S
       /\ \A i \in 1..(Len(W) - 1) : W[i].start <= W[i + 1].start
       /\ Len(W) <= Ceil(Cardinality(S), chunksize)

\* C12: for every destination and the rows of every window, the destination
\* after the second execution of the window's upsert holds the same set of
\* rows as after the first.
C12_UpsertIdempotent ==
  [][pc = "apply1" => dst_table' = dst_table]_vars

\* a window of two rows has been merged twice into a destination that held
\* an older version of one of them, did not hold the other, and held a third
\* row
C12_Witness ==
  /\ pc = "apply2"
  /\ Cardinality(chunk) = 2
  /\ \E r \in chunk : \E s \in dst0 : s.pk = r.pk /\ s.updated # r.updated
  /\ \E r \in chunk : \A s \in dst0 : s.pk # r.pk
  /\ \E s \in dst0 : \A r \in chunk : s.pk # r.pk

\* C13: the run start time does not change during the run, and no row with
\* a watermark above it is fetched or is in the destination, whatever is
\* written to the source while the run is in progress (the destination is
\* empty when the run begins).
C13_NothingNewerThanRunStart ==
  /\ [](\A r \in dst_table \cup chunk : r.updated <= max_updated)
  /\ [][max_updated' = max_updated]_vars

\* the last, open-ended window of the last slice has been fetched and merged
\* while the source held a row newer than the run start time that was
\* written after the first fetch of the run
C13_Witness ==
  /\ pc = "yielded"
  /\ windows = <<>>
  /\ slice_no = Len(slices)
  /\ chunk # {}
  /\ Len(fetched) >= 2
  /\ \E r \in fetched[Len(fetched)].src \ fetched[1].src : r.updated > max_updated

\* C14: once the watermark is resolved, at every point where the run can
\* stop, every source row whose watermark lies between the resolved
\* watermark and the greatest watermark of the destination, both inclusive,
\* is in the destination.
C14_LowWaterMark ==
  pc \in {"planned", "slice", "yielded", "done", "abandoned", "failed"} =>
    \A r \in src_table :
      (starting_point <= r.updated /\ r.updated <= max_updated_of(dst_table))
        => r \in dst_table

\* a run has been stopped inside a slice, after a window was merged and
\* before the next one: the destination holds rows, and the source holds a
\* row of the run's range above the greatest watermark of the destination
C14_Witness ==
  /\ pc \in {"abandoned", "failed"}
  /\ prev_end = "none"
  /\ windows # <<>>
  /\ dst_table # {}
  /\ \E r \in src_table : /\ r.updated > max_updated_of(dst_table)
                           /\ r.updated <= max_updated

\* C15: the rows fetched for a window are at most chunksize, whatever the
\* watermark values of the slice.  Stated on the sources without a row of
\* watermark 0 (the window that ends at 0 is C11's case).
C15_WindowWithinChunk ==
  (pc = "fetched" /\ \A r \in src_table : r.updated > 0) =>
    Cardinality(chunk) <= chunksize

\* the number of rows merged by the windows 1..i of the run that belong to
\* the slice of window i
RECURSIVE MergedInSlice(_, _)
MergedInSlice(i, j) ==
  IF j = 0 THEN 0
  ELSE MergedInSlice(i, j - 1)
       + (IF fetched[j].slice = fetched[i].slice THEN Cardinality(fetched[j].rows) ELSE 0)

\* C16: in every record the first component is the number of rows merged so
\* far in the record's slice, the second is that slice's estimate and the
\* third is the table estimate of the run.  Stated on the sources without a
\* row of watermark 0 (no row is then fetched twice within a slice, C11).
C16_RecordCountsSlice ==
  (\A r \in src_table : r.updated > 0) =>
    \A i \in 1..Len(records) :
      /\ records[i][1] = MergedInSlice(i, i)
      /\ records[i][2] =
           Len(windowed_query(src_table, slices[fetched[i].slice], chunksize)) * chunksize
      /\ records[i][3] = src_table_size

\* the destination dst after the upserts of the windows 1..k of the run
RECURSIVE Applied(_, _)
Applied(dst, k) ==
  IF k = 0 THEN dst ELSE upsert(Applied(dst, k - 1), fetched[k].rows)

\* C17: the windows are fetched slice after slice and, within a slice, in
\* ascending order of their starts; a window is fetched only when every
\* window before it has been merged and its record handed over; a record is
\* handed over by the step that merges the last fetched window; and with k
\* records handed over the destination is the initial destination with the
\* upserts of the first k windows applied.
C17_Sequencing ==
  /\ [](/\ Len(fetched) = Len(records) + (IF pc = "fetched" THEN 1 ELSE 0)
        /\ \A i \in 1..(Len(fetched) - 1) :
             \/ /\ fetched[i].slice < fetched[i + 1].slice
                /\ slices[fetched[i].slice][1] <= slices[fetched[i + 1].slice][1]
             \/ /\ fetched[i].slice = fetched[i + 1].slice
                /\ fetched[i].start <= fetched[i + 1].start
        /\ dst_table = Applied(dst0, Len(records)))
  /\ [][/\ Len(fetched') > Len(fetched) => (pc = "slice" /\ records' = records
                                               /\ dst_table' = dst_table)
        /\ Len(records') > Len(records) =>
             /\ pc = "fetched" /\ pc' = "yielded"
             /\ Len(records') = Len(records) + 1
             /\ dst_table' = upsert(dst_table, fetched[Len(fetched)].rows)]_vars

\* the caller holds three records of a run over two slices, two of them of
\* one slice, on a destination that held rows of an earlier run
C17_Witness ==
  /\ pc = "yielded"
  /\ Len(records) = 3
  /\ \E i \in 1..2 : fetched[i].slice < fetched[i + 1].slice
  /\ \E i \in 1..2 : fetched[i].slice = fetched[i + 1].slice
  /\ dst0 # {}
  /\ dst_table # dst0

\* the run has ended by a failing fetch or upsert
FailedInWindow == pc = "failed" /\ err \in {"DBAPIError", "UnboundLocalError"}

\* C18: when the fetch or the upsert of window k fails the run has ended
\* with an error: the failing step hands over no record, the destination is
\* the initial destination with the upserts of the windows 1..k-1 applied,
\* and the run takes no further step (no retry, no later window or slice,
\* no further record): the only step after the failure is the caller's
\* construction of a fresh Session, which writes to no table.
C18_FailureEndsRun ==
  /\ [](FailedInWindow =>
          /\ Len(fetched) - Len(records) \in {0, 1}
          /\ dst_table = Applied(dst0, Len(records)))
  /\ [][/\ pc = "failed" => (pc' = "start" /\ prev_end' = "failed"
                               /\ UNCHANGED tables)
        /\ pc' = "failed" => records' = records]_vars

\* the upsert of the second window of a slice has failed with a window of the
\* slice still to come: the first window's rows are in the destination, the
\* second window's rows are not
C18_Witness ==
  /\ FailedInWindow
  /\ Len(records) = 1
  /\ Len(fetched) = 2
  /\ windows # <<>>
  /\ chunk # {}
  /\ chunk \cap dst_table = {}
  /\ fetched[1].rows # {}
  /\ fetched[1].rows \subseteq dst_table

\* C19: slice planning terminates: the constructor never stays in
\* list(intervals(...)) for ever.
C19_PlanningTerminates ==
  pc # "hung"

\* C20: while a slice of N >= 1 rows of a static source is processed, the
\* slice estimate is boundaryCount * c with N <= estimate < N + c, and it is
\* the second component of every record of the slice.
C20_SliceEstimate ==
  LET N == Cardinality(select_stmt(src_table, slices[slice_no]))
  IN (pc \in {"slice", "fetched", "yielded"} /\ N >= 1) =>
       /\ rowcount =
            Len(windowed_query(src_table, slices[slice_no], chunksize)) * chunksize
       /\ N <= rowcount
       /\ rowcount < N + chunksize
       /\ \A i \in 1..Len(records) :
            fetched[i].slice = slice_no => records[i][2] = rowcount

\* the second record of a slice of three rows in chunks of two: estimate 4
C20_Witness ==
  /\ pc = "yielded"
  /\ chunksize = 2
  /\ Cardinality(select_stmt(src_table, slices[slice_no])) = 3
  /\ rowcount = 4
  /\ Len(SliceWindows(slice_no)) = 2
  /\ records[Len(records)][2] = 4

\* `after` is `before` with the rows merged: one row per key of `rows`,
\* carrying the incoming values, every other row of `before` kept as it was,
\* and no row from elsewhere
UpsertEffect(before, rows, after) ==
  /\ \A s \in rows : {r \in after : r.pk = s.pk} = {s}
  /\ \A r \in before :
       (\A s \in rows : s.pk # r.pk) => {x \in after : x.pk = r.pk} = {r}
  /\ after \subseteq before \cup rows

\* C21: the first execution of a window's upsert leaves, for every row of the
\* window, exactly one destination row with its key and with the incoming
\* values, leaves every destination row with another key unchanged, and does
\* not write the source table; for every destination and every window.
C21_UpsertFrame ==
  [][pc = "apply0" =>
       /\ UpsertEffect(dst_table, chunk, dst_table')
       /\ src_table' = src_table]_vars

\* a window of two rows has been merged once into a destination that held a
\* different version of one of them, did not hold the other, and held a row
\* with a third key, which is still there
C21_Witness ==
  /\ pc = "apply1"
  /\ Cardinality(chunk) = 2
  /\ \E r \in chunk : \E s \in dst0 : s.pk = r.pk /\ s.updated # r.updated
  /\ \E r \in chunk : \A s \in dst0 : s.pk # r.pk
  /\ \E s \in dst0 : s \in dst_table /\ \A r \in chunk : s.pk # r.pk
  /\ Cardinality(dst_table) = 3

\* the run has ended by a failing fetch: of the window Len(fetched) + 1
FailedInFetch == FailedInWindow /\ Len(fetched) = Len(records)

\* C22: when the fetch of a window has failed, the error that ended the run
\* is the database error, and the result set closed by the finally clause
\* of _chunkify, if any, is one of the window that was being fetched.
C22_FetchErrorSurfaces ==
  FailedInFetch =>
    /\ err = "DBAPIError"
    /\ result \in {0, Len(fetched) + 1}

====
